---- MODULE Spec2Model ----
(***************************************************************************)
(* Model of the Dutchie extraction session:                                *)
(*   - the Scroll Loader, DutchieExtractorOptimized._scroll_and_load_      *)
(*     products, one loop iteration per step (ScrollSpec);                 *)
(*   - the Extraction Orchestrator, DutchieExtractorOptimized.extract_     *)
(*     dispensary, on an extractor object that may be called again (Spec); *)
(*   - the Analysis Engine, CompetitiveAnalyzer: an analyzer built from a  *)
(*     record list and one operation called on it (AnalysisSpec), or any   *)
(*     sequence of operations (AnalysisSessionSpec);                       *)
(*   - the Record Extractor, DutchieExtractorOptimized._extract_product_   *)
(*     data, on the text block of one entry (ExtractorSpec).               *)
(* Integers stand for entry counts, THC percentages and prices.            *)
(***************************************************************************)
EXTENDS Integers, Sequences, FiniteSets, TLC

VARIABLES
    \* ---- the catalog page seen by the Scroll Loader
    src,                 \* the entry source behind the page (see Sources)
    visible,             \* entries in the DOM now: len(find_elements(...))
    appends,             \* scrolls that brought new entries so far
    lastAppend,          \* value of scroll_attempts after the scroll that brought the last entry
    \* ---- locals of _scroll_and_load_products
    spc,                 \* position: "idle", "get", "wait", "loop", "final", "done", "raised"
    scroll_attempts,
    last_product_count,
    final_products,      \* the returned list, as its length
    \* ---- the extractor object (self) of extract_dispensary
    driver,              \* self.driver: "None", "open" (a live session) or "quit"
    stats,               \* self.stats
    \* ---- the world around it
    open_sessions,       \* browser sessions created and not quit
    clock,               \* readings of datetime.now so far
    \* ---- the call of extract_dispensary in progress (or the last one)
    pc,                  \* "idle" (no call in progress), "category", "extract", "finally"
    calls,               \* calls of extract_dispensary made on this extractor
    categories,          \* the category list of the call
    min_thc, max_price,  \* the filter bounds of the call, None when not given
    all_products,
    k,                   \* index of the category being processed
    product_elements,    \* entries returned by the Scroll Loader, as their number
    i,                   \* entries of product_elements handed to the extractor
    category_products,
    fault,               \* the exception in flight inside the try block, or "none"
    \* ---- what the caller gets
    outcome,             \* "none", "returned" or "raised"
    returned,            \* the list returned to the caller
    error,               \* the exception that reached the caller
    \* ---- history of the call, for stating the claims
    run_entries,         \* entries the Scroll Loader materialized in this call
    run_failed,          \* entries of this call whose extraction failed
    run_done,            \* categories of this call whose records were appended
    \* ---- a CompetitiveAnalyzer and the caller of its operations
    product_data,        \* the record list given to the constructor
    df,                  \* self.df: its columns and its rows
    analysis_results,    \* self.analysis_results
    apc,                 \* "parked", "new" (not constructed yet), "ready", "done"
    op,                  \* the operation whose outcome aresult/aerror hold
    aresult,             \* what the operation returned, <<>> when it raised
    aerror,              \* the exception the operation raised, or "none"
    \* ---- one call of _extract_product_data on its own
    product_element,     \* the entry handle passed: its text block and its link
    xpc,                 \* "parked", "ready" (about to be called), "done"
    xresult              \* what the call returned: <<>> for None, <<dict>>

scrollVars == <<src, visible, appends, lastAppend, spc, scroll_attempts,
                last_product_count, final_products>>

selfVars == <<driver, stats, open_sessions, clock>>
callVars == <<pc, calls, categories, min_thc, max_price, all_products, k,
              product_elements, i, category_products, fault>>
callerVars == <<outcome, returned, error>>
histVars == <<run_entries, run_failed, run_done>>
runVars == <<selfVars, callVars, callerVars, histVars>>

anVars == <<product_data, df, analysis_results, apc, op, aresult, aerror>>

exVars == <<product_element, xpc, xresult>>

vars == <<scrollVars, runVars, anVars, exVars>>

----------------------------------------------------------------------------
\* Bounds of the model
MaxFeed == 53            \* largest finite feed (total entries a page ever holds)
MaxBatch == 2            \* most entries one scroll appends
MaxInitial == 2          \* most entries rendered before the first scroll

\* Program constants
max_scroll_attempts == 50
GraceAttempts == 3

Min(a, b) == IF a < b THEN a ELSE b

(***************************************************************************)
(* An entry source: `initial` entries are rendered when the initial wait   *)
(* ends, each scroll appends up to `batch` more until `feed` entries exist *)
(* (never, when `endless`).  A `steady` source appends on every scroll     *)
(* while entries remain; a source that is not steady may also bring        *)
(* nothing on a scroll (slow lazy load).                                   *)
(***************************************************************************)
Sources ==
    { [initial |-> n0, feed |-> f, batch |-> b, steady |-> s, endless |-> FALSE] :
        n0 \in 0..MaxInitial, f \in 0..MaxFeed, b \in 1..MaxBatch, s \in BOOLEAN }
    \cup
    { [initial |-> n0, feed |-> 0, batch |-> b, steady |-> s, endless |-> TRUE] :
        n0 \in 0..MaxInitial, b \in 1..MaxBatch, s \in BOOLEAN }

ValidSource(s) == s.endless \/ s.initial <= s.feed

\* Entries in the DOM after one more scroll of source s that does bring entries.
Grow(s, v) == IF s.endless THEN v + s.batch ELSE Min(v + s.batch, s.feed)

HasMore(s, v) == s.endless \/ v < s.feed

\* Scrolls a steady source needs before it holds all its entries.
NeededScrolls(s) == ((s.feed - s.initial) + (s.batch - 1)) \div s.batch

----------------------------------------------------------------------------
\* _scroll_and_load_products

\* while scroll_attempts < max_scroll_attempts
\* (LoopGuard_OffByOne: the guard written with <=, one iteration too many)
LoopGuard_OffByOne(attempts) == attempts <= max_scroll_attempts
LoopGuard(attempts) == attempts < max_scroll_attempts

\* if current_count == last_product_count: if scroll_attempts > 3: break
\* (Stable_CompareAfterUpdate: the comparison made after last_product_count
\* was set to current_count, so that it always succeeds;
\* Stable_NoGrace: the inner test on scroll_attempts left out)
Stable_NoGrace(count, last, attempts) == count = last
Stable_CompareAfterUpdate(count, last, attempts) == attempts > GraceAttempts
Stable(count, last, attempts) == count = last /\ attempts > GraceAttempts

\* The whole loop on a steady source, as the orchestrator calls it: the
\* length of the returned list.
RECURSIVE ScrollLoop(_, _, _, _)
ScrollLoop(s, attempts, last, v) ==
    IF ~LoopGuard(attempts) THEN v
    ELSE IF Stable(v, last, attempts) THEN v
    ELSE ScrollLoop(s, attempts + 1, v, Grow(s, v))

ScrollAndLoad(s) == IF s.initial = 0 THEN 0 ELSE ScrollLoop(s, 0, 0, s.initial)

\* The scroll actions (execute_script scrollTo) of the same call.
\* (ScrollActions_NoEarlyReturn: the TimeoutException of the initial wait
\* swallowed without the `return []`, so that the loop is entered)
RECURSIVE ScrollCount(_, _, _, _)
ScrollCount(s, attempts, last, v) ==
    IF ~LoopGuard(attempts) THEN attempts
    ELSE IF Stable(v, last, attempts) THEN attempts
    ELSE ScrollCount(s, attempts + 1, v, Grow(s, v))

ScrollActions_NoEarlyReturn(s) == ScrollCount(s, 0, 0, s.initial)
ScrollActions(s) == IF s.initial = 0 THEN 0 ELSE ScrollCount(s, 0, 0, s.initial)

----------------------------------------------------------------------------
\* extract_dispensary and what it calls

MaxCalls == 2            \* calls of extract_dispensary on one extractor
MaxCats == 2             \* longest category list passed to a call
MaxEntries == 2          \* most entries on one category page of a call
MaxHandled == 2          \* most entries one extractor is handed over all its calls

None == 0 - 1            \* Python's None (every real count, percentage and price is >= 0)

\* Python truthiness of an Optional[float]: None and 0 are false.
Truthy(x) == x # None /\ x # 0

InitialStats ==
    [total_products |-> 0, successful_extractions |-> 0, failed_extractions |-> 0,
     categories_processed |-> 0, start_time |-> None, end_time |-> None,
     duration_seconds |-> <<>>]      \* the key is absent: <<>>, present: <<d>>

CategoryNames == {"flower", "edibles"}
CategoryLists == UNION { [1..n -> CategoryNames] : n \in 0..MaxCats }

\* The filter bounds a caller passes, and what an entry's text may show.
MinThcInputs == {None, 0, 2}
MaxPriceInputs == {None, 0, 1}
ThcShown == {None, 1, 2}       \* None: no "THC: <n>%" in the text
PriceShown == {None, 1, 2}     \* None: no "$<n>" in the text

\* The catalog entries of the dispensary, each known by the href of its link.
MaxUrls == 2
Urls == 1..MaxUrls

\* A catalog entry handle: stale (reading .text raises) or showing a text
\* and the link of its catalog entry.
EntryHandles ==
    { [stale |-> TRUE, thc |-> None, price |-> None, url |-> None] }
    \cup { [stale |-> FALSE, thc |-> t, price |-> p, url |-> u] :
             t \in ThcShown, p \in PriceShown, u \in Urls }

\* _extract_product_data: the record, or no record when anything in it raises
\* (except Exception: return None).  <<>> stands for None, <<r>> for the dict r.
\* thc_numeric is always set (to None without a match); price is set only on
\* a match, so has_price tells whether the key exists.
ExtractProductData(e) ==
    IF e.stale THEN <<>>
    ELSE << [thc_numeric |-> e.thc,
             has_price |-> e.price # None,
             price |-> e.price,
             product_url |-> e.url,
             category |-> "unset"] >>

\* A category page lists a catalog entry once: the entries of the page read
\* so far do not include the entry behind e.
NotYetListed(e, products) ==
    \A n \in 1..Len(products) : products[n].product_url # e.url

\* product_data['category'] = category
\* (Tag_LeftToExtractor: the assignment missing, the record as the extractor
\* built it)
Tag_LeftToExtractor(r, category) == r
Tag(r, category) == [r EXCEPT !.category = category]

\* _apply_filters.  p.get("thc_numeric", 0) is the stored value, None
\* included, since the key is always there: None >= min_thc raises TypeError.
FilterRaises(products, mt, mp) ==
    /\ Truthy(mt)
    /\ \E n \in 1..Len(products) : products[n].thc_numeric = None

ThcPasses(r, mt) == r.thc_numeric >= mt

\* p.get("price", float('inf')) <= max_price
PricePasses(r, mp) == r.has_price /\ r.price <= mp

FilterByThc(products, mt) ==
    IF Truthy(mt) THEN SelectSeq(products, LAMBDA r : ThcPasses(r, mt)) ELSE products

FilterByPrice(products, mp) ==
    IF Truthy(mp) THEN SelectSeq(products, LAMBDA r : PricePasses(r, mp)) ELSE products

ApplyFilters(products, mt, mp) == FilterByPrice(FilterByThc(products, mt), mp)

\* if min_thc or max_price: category_products = self._apply_filters(...)
FiltersRequested(mt, mp) == Truthy(mt) \/ Truthy(mp)

\* self.stats["successful_extractions"] += 1 / self.stats["failed_extractions"] += 1
\* (CountFailure_Forgotten: the else branch without its increment;
\* CountFailure_AfterSuccess: the success increment placed before the
\* `if product_data:` test, so that a failed entry counts twice)
CountSuccess(st) == [st EXCEPT !.successful_extractions = @ + 1]
CountFailure_AfterSuccess(st) ==
    [st EXCEPT !.successful_extractions = @ + 1, !.failed_extractions = @ + 1]
CountFailure_Forgotten(st) == st
CountFailure(st) == [st EXCEPT !.failed_extractions = @ + 1]

\* except Exception as e: logger.error(...); raise
\* (Reraise_Wrapped: raise ExtractionError(...) from e in its place)
Reraise_Wrapped(e) == "ExtractionError"
Reraise(e) == e

\* Entries handed to the Record Extractor so far, over all calls.
Handled == stats.successful_extractions + stats.failed_extractions

\* The catalog page of a category, for the orchestrator: n entries, one
\* rendered at first and one more per scroll.
PageOf(n) == [initial |-> Min(n, 1), feed |-> n, batch |-> 1, steady |-> TRUE,
              endless |-> FALSE]

----------------------------------------------------------------------------
\* _extract_product_data on the text block of an entry

MaxTokens == 4           \* longest text block, in tokens

\* A text block is a sequence of tokens.  "\n" is the line break; the other
\* tokens of a line are written with one space between them, so the empty
\* token stands for white space only: <<"", "">> is the blank line " ".
Tokens == {"", "\n", "Blue", "Hybrid", "indica", "THC:", "cbd:", "2%", "1%", "$1",
           "3", "g", "Sold Out"}

IsSpace(t) == t \in {"", "\n"}

\* str.lower() and re.IGNORECASE
Lower(t) ==
    CASE t = "Blue" -> "blue"
      [] t = "Hybrid" -> "hybrid"
      [] t = "THC:" -> "thc:"
      [] t = "Sold Out" -> "sold out"
      [] OTHER -> t

\* text_content.split('\n'): the empty text is one empty line.
RECURSIVE Split(_)
Split(text) ==
    LET breaks == {p \in 1..Len(text) : text[p] = "\n"} IN
    IF breaks = {} THEN <<text>>
    ELSE LET p == CHOOSE b \in breaks : \A c \in breaks : b <= c IN
         <<SubSeq(text, 1, p - 1)>> \o Split(SubSeq(text, p + 1, Len(text)))

\* str.strip() of a line
RECURSIVE Strip(_)
Strip(line) ==
    IF line = <<>> THEN line
    ELSE IF Head(line) = "" THEN Strip(Tail(line))
    ELSE IF line[Len(line)] = "" THEN Strip(SubSeq(line, 1, Len(line) - 1))
    ELSE line

\* \s* from position p on: the first token at or after p that is not white
\* space, Len(text) + 1 when there is none.
RECURSIVE SkipSpace(_, _)
SkipSpace(text, p) ==
    IF p > Len(text) THEN p
    ELSE IF IsSpace(text[p]) THEN SkipSpace(text, p + 1)
    ELSE p

\* re.search: the leftmost of the positions where the pattern matches, 0 for
\* no match (None).
Search(found) ==
    IF found = {} THEN 0 ELSE CHOOSE p \in found : \A q \in found : p <= q

\* (\d+\.?\d*)% at the start of a token: the number, None when it is not there
PercentNumber(t) == CASE t = "2%" -> 2 [] t = "1%" -> 1 [] OTHER -> None

\* \$(\d+\.?\d*) in a token
DollarNumber(t) == CASE t = "$1" -> 1 [] OTHER -> None

\* \d+\.?\d* at the end of a token, as written
TrailingDigits(t) == CASE t = "3" -> <<"3">> [] t = "$1" -> <<"1">> [] OTHER -> <<>>

\* \b(Sativa|Indica|Hybrid)\b
StrainAt(text, p) == Lower(text[p]) \in {"sativa", "indica", "hybrid"}

\* THC:\s*(\d+\.?\d*)%  and  CBD:\s*(\d+\.?\d*)%
LabelAt(text, p, label) ==
    /\ Lower(text[p]) = label
    /\ SkipSpace(text, p + 1) <= Len(text)
    /\ PercentNumber(text[SkipSpace(text, p + 1)]) # None

ThcAt(text, p) == LabelAt(text, p, "thc:")
CbdAt(text, p) == LabelAt(text, p, "cbd:")

PriceAt(text, p) == DollarNumber(text[p]) # None

\* (\d+\.?\d*\s*(?:g|oz|mg))
SizeAt(text, p) ==
    /\ TrailingDigits(text[p]) # <<>>
    /\ SkipSpace(text, p + 1) <= Len(text)
    /\ Lower(text[SkipSpace(text, p + 1)]) \in {"g", "oz", "mg"}

\* thc_match.group(1) + '%' if thc_match else None
PercentField(text, m) == IF m = 0 THEN <<>> ELSE <<text[SkipSpace(text, m + 1)]>>

\* float(thc_match.group(1)) if thc_match else None
\* (NumericField_ZeroWhenAbsent: `else 0.0` in place of `else None`)
NumericField_ZeroWhenAbsent(text, m) ==
    IF m = 0 THEN 0 ELSE PercentNumber(text[SkipSpace(text, m + 1)])
NumericField(text, m) ==
    IF m = 0 THEN None ELSE PercentNumber(text[SkipSpace(text, m + 1)])

\* size_match.group(1): the digits, the white space and the unit as written
SizeField(text, m) ==
    IF m = 0 THEN <<>>
    ELSE << TrailingDigits(text[m]) \o SubSeq(text, m + 1, SkipSpace(text, m + 1)) >>

\* 'out of stock' in text_content.lower() or 'sold out' in text_content.lower()
StockStatus(text) ==
    IF \E p \in 1..Len(text) : Lower(text[p]) \in {"out of stock", "sold out"}
      THEN "out_of_stock" ELSE "in_stock"

\* The entry handles: a readable one has a text block and an anchor with an
\* href (1) or no anchor (None); reading the text of a stale one raises.
StaleElement == [readable |-> FALSE, text |-> <<>>, href |-> None]

IsElement(e) ==
    \/ e = StaleElement
    \/ \E n \in 0..MaxTokens : \E t \in [1..n -> Tokens], h \in {None, 1} :
          e = [readable |-> TRUE, text |-> t, href |-> h]

\* The whole of _extract_product_data: <<>> for None, <<dict>> otherwise.
\* A key that is set only sometimes has a has_ flag; a value that is a
\* string or None is <<string>> or <<>>.
ParseProduct(e) ==
    IF ~e.readable THEN <<>>                   \* except Exception: return None
    ELSE LET text == e.text
             lines == Split(text)
             thc_match == Search({p \in 1..Len(text) : ThcAt(text, p)})
             cbd_match == Search({p \in 1..Len(text) : CbdAt(text, p)})
             price_match == Search({p \in 1..Len(text) : PriceAt(text, p)})
             strain_match == Search({p \in 1..Len(text) : StrainAt(text, p)})
             size_match == Search({p \in 1..Len(text) : SizeAt(text, p)})
         IN << [product_name |-> Strip(lines[1]),
                has_brand |-> Len(lines) > 1,
                brand |-> IF Len(lines) > 1 THEN Strip(lines[2]) ELSE <<>>,
                strain_type |-> IF strain_match = 0 THEN <<>> ELSE <<text[strain_match]>>,
                thc_percent |-> PercentField(text, thc_match),
                thc_numeric |-> NumericField(text, thc_match),
                cbd_percent |-> PercentField(text, cbd_match),
                cbd_numeric |-> NumericField(text, cbd_match),
                has_price |-> price_match # 0,
                price |-> IF price_match = 0 THEN None ELSE DollarNumber(text[price_match]),
                price_raw |-> IF price_match = 0 THEN <<>> ELSE <<text[price_match]>>,
                size_weight |-> SizeField(text, size_match),
                product_url |-> e.href,
                raw_text |-> text,
                stock_status |-> StockStatus(text)] >>

\* No call of _extract_product_data on its own is under way.
ExtractorParked ==
    /\ product_element = StaleElement
    /\ xpc = "parked"
    /\ xresult = <<>>

RunIdle ==
    /\ driver = "None"
    /\ stats = InitialStats
    /\ open_sessions = 0
    /\ clock = 0
    /\ pc = "idle"
    /\ calls = 0
    /\ categories = <<>>
    /\ min_thc = None
    /\ max_price = None
    /\ all_products = <<>>
    /\ k = 0
    /\ product_elements = 0
    /\ i = 0
    /\ category_products = <<>>
    /\ fault = "none"
    /\ outcome = "none"
    /\ returned = <<>>
    /\ error = "none"
    /\ run_entries = 0
    /\ run_failed = 0
    /\ run_done = 0

\* The call's first lines: start_time, _setup_driver, the category default,
\* all_products = [].  _setup_driver is outside the try block: when it
\* raises, the exception leaves extract_dispensary at once.  The caller
\* passes the category list; the default list of a call without one takes
\* the same path with self.categories.
\*   "ok"            the session is created and configured
\*   "no_session"    webdriver.Chrome(...) raises: self.driver is not assigned
\*   "after_session" self.driver is assigned, then implicitly_wait raises or
\*                   an interrupt arrives before the try block is entered
Call ==
    /\ pc = "idle"
    /\ outcome = "none"
    /\ calls < MaxCalls
    /\ \E cats \in CategoryLists, mt \in MinThcInputs, mp \in MaxPriceInputs,
          setup \in {"ok", "no_session", "after_session"} :
         /\ calls' = calls + 1
         /\ clock' = clock + 1
         /\ stats' = [stats EXCEPT !.start_time = clock + 1]
         /\ categories' = cats
         /\ min_thc' = mt
         /\ max_price' = mp
         /\ all_products' = <<>>
         /\ k' = 1
         /\ product_elements' = 0
         /\ i' = 0
         /\ category_products' = <<>>
         /\ fault' = "none"
         /\ returned' = <<>>
         /\ run_entries' = 0
         /\ run_failed' = 0
         /\ run_done' = 0
         /\ CASE setup = "ok" ->
                   /\ driver' = "open"
                   /\ open_sessions' = open_sessions + 1
                   /\ pc' = IF cats = <<>> THEN "finally" ELSE "category"
                   /\ outcome' = "none"
                   /\ error' = "none"
              [] setup = "no_session" ->
                   /\ UNCHANGED <<driver, open_sessions>>
                   /\ pc' = "idle"
                   /\ outcome' = "raised"
                   /\ error' = "WebDriverException"
              [] setup = "after_session" ->
                   /\ driver' = "open"
                   /\ open_sessions' = open_sessions + 1
                   /\ pc' = "idle"
                   /\ outcome' = "raised"
                   /\ error' \in {"WebDriverException", "KeyboardInterrupt"}
    /\ UNCHANGED <<scrollVars, anVars, exVars>>

\* product_elements = self._scroll_and_load_products(category_url)
\* It returns the entries of the page, or a navigation failure or an
\* interrupt leaves it as an exception.
LoadCategory ==
    /\ pc = "category"
    /\ \/ \E n \in 0..Min(MaxEntries, MaxHandled - Handled) :
            /\ product_elements' = ScrollAndLoad(PageOf(n))
            /\ run_entries' = run_entries + ScrollAndLoad(PageOf(n))
            /\ i' = 0
            /\ category_products' = <<>>
            /\ pc' = "extract"
            /\ UNCHANGED fault
       \/ /\ fault' \in {"WebDriverException", "KeyboardInterrupt"}
          /\ pc' = "finally"
          /\ UNCHANGED <<product_elements, run_entries, i, category_products>>
    /\ UNCHANGED <<selfVars, calls, categories, min_thc, max_price, all_products, k,
                   callerVars, run_failed, run_done, scrollVars, anVars, exVars>>

\* One pass of `for i, element in enumerate(product_elements)`.
ExtractEntry ==
    /\ pc = "extract"
    /\ i < product_elements
    /\ \/ \E e \in EntryHandles :
            LET r == ExtractProductData(e) IN
            /\ NotYetListed(e, category_products)
            /\ IF r # <<>>
                 THEN /\ category_products' =
                           Append(category_products, Tag(r[1], categories[k]))
                      /\ stats' = CountSuccess(stats)
                      /\ UNCHANGED run_failed
                 ELSE /\ stats' = CountFailure(stats)
                      /\ run_failed' = run_failed + 1
                      /\ UNCHANGED category_products
            /\ i' = i + 1
            /\ UNCHANGED <<pc, fault>>
       \/ /\ fault' = "KeyboardInterrupt"        \* not an Exception: not caught
          /\ pc' = "finally"
          /\ UNCHANGED <<stats, category_products, i, run_failed>>
    /\ UNCHANGED <<driver, open_sessions, clock, calls, categories, min_thc,
                   max_price, all_products, k, product_elements, callerVars,
                   run_entries, run_done, scrollVars, anVars, exVars>>

\* After the last entry: the filters, all_products.extend, categories_processed.
FilterAndAppend ==
    /\ pc = "extract"
    /\ i = product_elements
    /\ IF FiltersRequested(min_thc, max_price)
            /\ FilterRaises(category_products, min_thc, max_price)
         THEN /\ fault' = "TypeError"
              /\ pc' = "finally"
              /\ UNCHANGED <<stats, all_products, k, category_products, run_done>>
         ELSE /\ category_products' =
                   IF FiltersRequested(min_thc, max_price)
                     THEN ApplyFilters(category_products, min_thc, max_price)
                     ELSE category_products
              /\ all_products' = all_products \o category_products'
              /\ stats' = [stats EXCEPT !.categories_processed = @ + 1]
              /\ run_done' = run_done + 1
              /\ k' = k + 1
              /\ pc' = IF k + 1 > Len(categories) THEN "finally" ELSE "category"
              /\ UNCHANGED fault
    /\ UNCHANGED <<driver, open_sessions, clock, calls, categories, min_thc,
                   max_price, product_elements, i, callerVars, run_entries,
                   run_failed, scrollVars, anVars, exVars>>

\* finally: quit the driver, end_time, total_products.  Then the exception in
\* flight goes on to the caller, or the results are saved when output_dir is
\* given (the export may raise) and returned.
Finish ==
    /\ pc = "finally"
    /\ driver' = IF driver # "None" THEN "quit" ELSE driver
    /\ open_sessions' = IF driver = "open" THEN open_sessions - 1 ELSE open_sessions
    /\ clock' = clock + 1
    /\ stats' = [stats EXCEPT !.end_time = clock + 1,
                              !.total_products = Len(all_products)]
    /\ pc' = "idle"
    /\ IF fault # "none"
         THEN /\ outcome' = "raised"
              /\ error' = Reraise(fault)
              /\ returned' = <<>>
         ELSE \E save \in {"none", "saved", "fails"} :
                IF save = "fails"
                  THEN /\ outcome' = "raised"
                       /\ error' = "OSError"
                       /\ returned' = <<>>
                  ELSE /\ outcome' = "returned"
                       /\ error' = "none"
                       /\ returned' = all_products
    /\ UNCHANGED <<calls, categories, min_thc, max_price, all_products, k,
                   product_elements, i, category_products, fault, histVars,
                   scrollVars, anVars, exVars>>

\* The caller is done with the outcome of a call: the list (or the
\* exception) it got and the locals of the finished call are gone; the
\* extractor object stays as the call left it and may be called again.
CallerMovesOn ==
    /\ pc = "idle"
    /\ outcome # "none"
    /\ categories' = <<>>
    /\ min_thc' = None
    /\ max_price' = None
    /\ all_products' = <<>>
    /\ k' = 0
    /\ product_elements' = 0
    /\ i' = 0
    /\ category_products' = <<>>
    /\ fault' = "none"
    /\ outcome' = "none"
    /\ returned' = <<>>
    /\ error' = "none"
    /\ run_entries' = 0
    /\ run_failed' = 0
    /\ run_done' = 0
    /\ UNCHANGED <<selfVars, pc, calls, scrollVars, anVars, exVars>>

\* get_extraction_stats, called between two calls of extract_dispensary:
\* if start_time and end_time: stats["duration_seconds"] = end - start
\* (a datetime is always true, None is false); return self.stats.copy()
Duration(st) == st.end_time - st.start_time

GetExtractionStats ==
    /\ pc = "idle"
    /\ calls >= 1
    /\ stats' = IF stats.start_time # None /\ stats.end_time # None
                  THEN [stats EXCEPT !.duration_seconds = <<Duration(stats)>>]
                  ELSE stats
    /\ UNCHANGED <<driver, open_sessions, clock, callVars, callerVars, histVars,
                   scrollVars, anVars, exVars>>

\* No CompetitiveAnalyzer exists.
AnalysisParked ==
    /\ product_data = <<>>
    /\ df = [columns |-> {}, rows |-> <<>>]
    /\ analysis_results = <<>>
    /\ apc = "parked"
    /\ op = "none"
    /\ aresult = <<>>
    /\ aerror = "none"

ScrollParked ==
    /\ src = PageOf(0)
    /\ visible = 0
    /\ appends = 0
    /\ lastAppend = 0
    /\ spc = "idle"
    /\ scroll_attempts = 0
    /\ last_product_count = 0
    /\ final_products = 0

Init == RunIdle /\ ScrollParked /\ AnalysisParked /\ ExtractorParked

Next ==
    \/ Call \/ LoadCategory \/ ExtractEntry \/ FilterAndAppend \/ Finish
    \/ CallerMovesOn \/ GetExtractionStats

Spec == Init /\ [][Next]_vars

----------------------------------------------------------------------------
ScrollInit ==
    /\ src \in {s \in Sources : ValidSource(s)}
    /\ visible = 0
    /\ appends = 0
    /\ lastAppend = 0
    /\ spc = "get"
    /\ scroll_attempts = 0
    /\ last_product_count = 0
    /\ final_products = 0
    /\ RunIdle
    /\ AnalysisParked
    /\ ExtractorParked

\* self.driver.get(category_url); self._handle_age_verification()
\* The page answers and renders its initial entries, or the navigation raises.
Navigate ==
    /\ spc = "get"
    /\ \/ /\ spc' = "wait"
          /\ visible' = src.initial
       \/ /\ spc' = "raised"
          /\ visible' = visible
    /\ UNCHANGED <<src, appends, lastAppend, scroll_attempts, last_product_count,
                   final_products>>
    /\ UNCHANGED <<runVars, anVars, exVars>>

\* WebDriverWait(self.driver, 20).until(presence_of_element_located(...))
InitialWait ==
    /\ spc = "wait"
    /\ IF visible >= 1
         THEN /\ spc' = "loop"
              /\ last_product_count' = 0
              /\ scroll_attempts' = 0
              /\ UNCHANGED final_products
         ELSE /\ spc' = "done"                 \* except TimeoutException: return []
              /\ final_products' = 0
              /\ UNCHANGED <<last_product_count, scroll_attempts>>
    /\ UNCHANGED <<src, visible, appends, lastAppend>>
    /\ UNCHANGED <<runVars, anVars, exVars>>

\* One evaluation of the while condition and, if it holds, one loop body.
ScrollIteration ==
    /\ spc = "loop"
    /\ IF ~LoopGuard(scroll_attempts)
         THEN /\ spc' = "final"
              /\ UNCHANGED <<visible, appends, lastAppend, scroll_attempts,
                             last_product_count>>
         ELSE IF Stable(visible, last_product_count, scroll_attempts)
         THEN /\ spc' = "final"                \* break
              /\ UNCHANGED <<visible, appends, lastAppend, scroll_attempts,
                             last_product_count>>
         ELSE /\ last_product_count' = visible
              /\ scroll_attempts' = scroll_attempts + 1
              /\ spc' = "loop"
              \* execute_script(scrollTo bottom); time.sleep(3)
              /\ \/ /\ HasMore(src, visible)
                    /\ visible' = Grow(src, visible)
                    /\ appends' = appends + 1
                    /\ lastAppend' = scroll_attempts + 1
                 \/ /\ ~HasMore(src, visible) \/ ~src.steady
                    /\ UNCHANGED <<visible, appends, lastAppend>>
    /\ UNCHANGED <<src, final_products>>
    /\ UNCHANGED <<runVars, anVars, exVars>>

\* final_products = self.driver.find_elements(...); return final_products
FinalCount ==
    /\ spc = "final"
    /\ final_products' = visible
    /\ spc' = "done"
    /\ UNCHANGED <<src, visible, appends, lastAppend, scroll_attempts,
                   last_product_count>>
    /\ UNCHANGED <<runVars, anVars, exVars>>

ScrollNext == Navigate \/ InitialWait \/ ScrollIteration \/ FinalCount

\* The loop is ordinary sequential code: a step that can be taken is taken.
ScrollSpec == ScrollInit /\ [][ScrollNext]_vars /\ WF_vars(ScrollNext)

----------------------------------------------------------------------------
\* Claims about the Scroll Loader (checked under ScrollSpec)

Max(a, b) == IF a > b THEN a ELSE b

ScrollReturned == spc = "done"

\* The source grows on every scroll, forever, and shows an entry at the wait.
EverGrowing == src.endless /\ src.steady /\ src.initial >= 1

\* C1: _scroll_and_load_products terminates for every entry source and never
\* performs more than 50 scroll iterations; on a source that grows on every
\* iteration forever it stops at exactly 50 iterations and returns the
\* entries visible then (the initial ones and 50 batches).
C1_CeilingTerminates ==
    /\ [](scroll_attempts <= max_scroll_attempts)
    /\ <>(spc \in {"done", "raised"})
    /\ [](ScrollReturned /\ EverGrowing =>
            /\ scroll_attempts = max_scroll_attempts
            /\ final_products = visible
            /\ final_products = src.initial + max_scroll_attempts * src.batch)

C1_Witness == ScrollReturned /\ EverGrowing /\ scroll_attempts = max_scroll_attempts

\* A finite source that shows an entry at the wait and appends on every
\* scroll until it holds all its `feed` entries.
SteadyFinite == ~src.endless /\ src.steady /\ src.initial >= 1

\* C2 as stated: a source that stops growing once it holds N entries makes
\* the loader return exactly N entries, with no scroll after the stability
\* point plus the grace iterations.
C2_ReturnsAllEntries ==
    ScrollReturned /\ SteadyFinite =>
        /\ final_products = src.feed
        /\ scroll_attempts <= lastAppend + (GraceAttempts + 1)

\* C2 amended: the same, for a source that is exhausted within the ceiling
\* of 50 scrolls; the loader then scrolls once past the scroll that brought
\* the last entry, and at least 4 times, never more than 50 times.
C2_ReturnsAllWithinCeiling ==
    ScrollReturned /\ SteadyFinite /\ NeededScrolls(src) <= max_scroll_attempts =>
        /\ final_products = src.feed
        /\ lastAppend = NeededScrolls(src)
        /\ scroll_attempts <= lastAppend + (GraceAttempts + 1)
        /\ scroll_attempts =
             Min(Max(NeededScrolls(src) + 1, GraceAttempts + 1), max_scroll_attempts)

C2_Witness ==
    /\ ScrollReturned /\ SteadyFinite
    /\ NeededScrolls(src) > GraceAttempts + 1
    /\ NeededScrolls(src) < max_scroll_attempts
    /\ final_products = src.feed
    /\ scroll_attempts = NeededScrolls(src) + 1

----------------------------------------------------------------------------
\* Claims about extract_dispensary (checked under Spec)

Exited == pc = "idle" /\ outcome # "none"
Failed == pc = "idle" /\ outcome = "raised"
Completed == pc = "idle" /\ outcome = "returned"

InSeq(r, seq) == \E n \in 1..Len(seq) : seq[n] = r

\* C3: on every exit path of extract_dispensary (return, exception at any
\* step including session setup, interrupt) every browser session that was
\* created has been quit.
C3_SessionReleasedOnExit == Exited => open_sessions = 0

\* C4: when a call ends in an error, the session is released and the stats
\* are finalized (end_time read in this call, total_products set) when the
\* error reaches the caller, and the error does reach the caller.
C4_AbortCleansUpAndFinalizes ==
    Failed =>
        /\ error # "none"
        /\ open_sessions = 0
        /\ stats.end_time # None
        /\ stats.end_time > stats.start_time
        /\ stats.total_products = Len(all_products)

\* C5 as stated: a failed call reaches the caller as an ExtractionError.
C5_RaisesExtractionError == Failed => error = "ExtractionError"

\* C5 amended: a failed call reaches the caller as the very exception that
\* the failing step raised (a WebDriverException, TypeError, OSError or
\* KeyboardInterrupt), never wrapped; the exception carries no stats, the
\* counters collected so far stay in self.stats.
C5_RaisesOriginalException ==
    Failed =>
        /\ error \in {"WebDriverException", "TypeError", "KeyboardInterrupt", "OSError"}
        /\ fault # "none" => error = fault
        /\ calls = 1 =>
             /\ stats.successful_extractions + stats.failed_extractions <= run_entries
             /\ stats.categories_processed = run_done

C5_Witness ==
    /\ Failed /\ fault = "TypeError" /\ error = "TypeError"
    /\ stats.successful_extractions = 2 /\ stats.categories_processed = 1

\* C6: when a call fails while processing a category, the records of the
\* categories fully processed before it (all_products at the failure) are
\* available to the caller after the failure.
C6_PartialRecordsAvailable ==
    Failed /\ fault # "none" /\ run_done >= 1 => returned = all_products

\* C7: after a call returns, the entries the Scroll Loader materialized in
\* it are accounted for by the reported stats: those returned
\* (total_products), those that failed (failed_extractions) and those the
\* filter removed (successful_extractions - total_products).
C7_EntriesReconstructible ==
    Completed =>
        /\ stats.total_products = Len(returned)
        /\ run_entries = stats.total_products + stats.failed_extractions
                           + (stats.successful_extractions - stats.total_products)

\* C8: a step in which the extraction of one entry fails yields no record,
\* adds exactly one to failed_extractions and leaves the call in the entry
\* loop with no exception in flight, so the remaining entries and
\* categories are still processed.
C8_EntryFailureDoesNotAbort ==
    [][run_failed' = run_failed + 1 =>
         /\ stats'.failed_extractions = stats.failed_extractions + 1
         /\ stats'.successful_extractions = stats.successful_extractions
         /\ category_products' = category_products
         /\ all_products' = all_products
         /\ i' = i + 1
         /\ pc' = "extract"
         /\ fault' = "none"]_vars

\* A failed entry, then a readable one in a later category, and the call
\* returned both categories' work.
C8_Witness ==
    /\ Completed /\ run_failed = 1 /\ run_entries = 2
    /\ run_done = 2 /\ Len(returned) = 1
    /\ returned[1].category = categories[2]

NoFilters == min_thc = None /\ max_price = None

\* C9: after a call with no filters and no extractor failure returns,
\* categories_processed is the number of categories, total_products the sum
\* of the categories' entry counts, failed_extractions is 0.
C9_StatsTotals ==
    Completed /\ NoFilters /\ run_failed = 0 =>
        /\ stats.categories_processed = Len(categories)
        /\ stats.total_products = run_entries
        /\ stats.failed_extractions = 0

\* C10: the filter bounds are inclusive.  In the step that filters and
\* appends a category: with only min_thc given, a record with THC exactly
\* min_thc is kept and one with a lower THC is dropped; with only max_price
\* given, a record with price exactly max_price is kept and one with a
\* higher price is dropped.
C10_InclusiveBounds ==
    [][pc = "extract" /\ i = product_elements /\ pc' # "extract" =>
         \A n \in 1..Len(category_products) :
            LET r == category_products[n]
                kept == fault' = "none" /\ InSeq(r, category_products')
                dropped == fault' # "none" \/ ~InSeq(r, category_products')
            IN  /\ min_thc # None /\ max_price = None =>
                     /\ r.thc_numeric = min_thc => kept
                     /\ r.thc_numeric # None /\ r.thc_numeric < min_thc => dropped
                /\ max_price # None /\ min_thc = None =>
                     /\ r.has_price /\ r.price = max_price => kept
                     /\ r.has_price /\ r.price > max_price => dropped]_vars

\* The step that ends a category's entry loop: the filters, then the append
\* (or the exception of the filter).
FilterStep == pc = "extract" /\ i = product_elements /\ pc' # "extract"

AllShowThc(products) == \A n \in 1..Len(products) : products[n].thc_numeric # None

\* C11: each filter is applied exactly when its bound is provided, the
\* value 0 included.  In the filter step of a category whose records all
\* show a THC, a record is kept iff (min_thc is not provided or its THC is
\* at least min_thc) and (max_price is not provided or it has a price of at
\* most max_price).
C11_FilterAppliedIffProvided ==
    [][FilterStep /\ AllShowThc(category_products) =>
         \A n \in 1..Len(category_products) :
            LET r == category_products[n]
                kept == fault' = "none" /\ InSeq(r, category_products')
            IN  kept <=>
                  /\ min_thc = None \/ r.thc_numeric >= min_thc
                  /\ max_price = None \/ (r.has_price /\ r.price <= max_price)]_vars

\* C12: with min_thc provided (and above 0), a record without a THC is
\* dropped by the filter like a record of THC 0, the records that pass are
\* appended, and the call goes on to the next category with no exception
\* in flight.
C12_AbsentThcDroppedRunContinues ==
    [][FilterStep /\ min_thc # None /\ min_thc > 0
         /\ ~AllShowThc(category_products) =>
         /\ fault' = "none"
         /\ run_done' = run_done + 1
         /\ category_products' =
              SelectSeq(category_products,
                        LAMBDA r : /\ r.thc_numeric # None
                                   /\ r.thc_numeric >= min_thc
                                   /\ max_price = None
                                        \/ (r.has_price /\ r.price <= max_price))
         /\ all_products' = all_products \o category_products']_vars

\* C13: every record of the returned list has its category set, to the
\* category of the page being processed when the record was extracted: a
\* record enters category_products tagged with categories[k], the filter
\* step moves records of category_products to the end of all_products
\* without touching them, and the list returned is all_products.
C13_CategoryIsPageCategory ==
    /\ [][pc = "extract" /\ Len(category_products') = Len(category_products) + 1 =>
            /\ category_products'[Len(category_products')].category = categories[k]
            /\ SubSeq(category_products', 1, Len(category_products)) = category_products
            /\ k' = k]_vars
    /\ [][FilterStep /\ fault' = "none" =>
            /\ SubSeq(all_products', 1, Len(all_products)) = all_products
            /\ \A n \in (Len(all_products) + 1)..Len(all_products') :
                  /\ InSeq(all_products'[n], category_products)
                  /\ all_products'[n].category = categories[k]]_vars
    /\ [](pc = "extract" =>
            \A n \in 1..Len(category_products) :
               category_products[n].category = categories[k])
    /\ [](Completed =>
            /\ returned = all_products
            /\ \A n \in 1..Len(returned) :
                  /\ returned[n].category \in CategoryNames
                  /\ \E j \in 1..Len(categories) : returned[n].category = categories[j])

\* Two categories, one record each, returned in the order of the pages.
C13_Witness ==
    /\ Completed /\ categories = <<"flower", "edibles">>
    /\ Len(returned) = 2
    /\ returned[1].category = "flower" /\ returned[2].category = "edibles"

\* C14: no mutable state crosses calls of extract_dispensary.  After every
\* call that returns, the stats count the entries, failures, categories and
\* records of that call only, whatever calls were made on the extractor
\* before.
C14_StatsCountOnlyThisRun ==
    Completed =>
        /\ stats.successful_extractions = run_entries - run_failed
        /\ stats.failed_extractions = run_failed
        /\ stats.categories_processed = run_done
        /\ stats.total_products = Len(returned)

\* C15: the returned list is de-duplicated: no catalog entry (known by its
\* link) is in it twice, also when two categories list the same entry or
\* the category list names a category twice.
C15_ReturnedDeduplicated ==
    Completed =>
        \A m, n \in 1..Len(returned) :
           m # n => returned[m].product_url # returned[n].product_url

----------------------------------------------------------------------------
\* CompetitiveAnalyzer (analysis/competitive_intelligence.py)

MaxRecords == 2          \* longest record list of the exhaustive enumeration

NaN == 0 - 2             \* a missing value in a numeric column of the DataFrame

AnalysisCategories ==
    <<"flower", "pre-rolls", "vaporizers", "edibles", "concentrates", "tinctures",
      "accessories">>

\* A product dict as the extractor builds it, with the keys the analyzer
\* reads: category and thc_percent are always there (thc_percent may be
\* None), brand and price are keys only when the entry's text had them.
ProductDicts ==
    { [category |-> c, has_brand |-> b # None, brand |-> b,
       has_price |-> p # None, price |-> p, thc_percent |-> t] :
        c \in CategoryNames, b \in {None, 1, 2}, p \in {None, 1, 2, 3},
        t \in {None, 20} }

\* A long list: n dicts over the first ncat categories, nbrand brands and
\* the prices 1..nprice, spread evenly.
LargeList(n, ncat, nbrand, nprice) ==
    [j \in 1..n |->
        [category |-> AnalysisCategories[(j % ncat) + 1],
         has_brand |-> TRUE, brand |-> (j % nbrand) + 1,
         has_price |-> TRUE, price |-> (j % nprice) + 1,
         thc_percent |-> 20]]

\* 400 products, 6 categories, 25 brands, 4 prices in equal shares.
ExampleList == LargeList(400, 6, 25, 4)

\* A list of n dicts over the first ncat categories in which every fourth
\* dict has no price, every third no brand and every other one no THC.
MixedList(n, ncat) ==
    [j \in 1..n |->
        [category |-> AnalysisCategories[(j % ncat) + 1],
         has_brand |-> j % 3 # 0, brand |-> IF j % 3 # 0 THEN j % 3 ELSE None,
         has_price |-> j % 4 # 0, price |-> IF j % 4 # 0 THEN j % 4 ELSE None,
         thc_percent |-> IF j % 2 = 0 THEN 20 ELSE None]]

LargeLists ==
    { ExampleList, LargeList(160, 7, 11, 4), LargeList(301, 7, 10, 1),
      LargeList(151, 1, 1, 2), MixedList(4, 2), MixedList(7, 3), MixedList(12, 7) }

\* The record lists given to an analyzer: every list of up to MaxRecords
\* dicts, and the longer lists above.
IsProductList(data) ==
    \/ \E n \in 0..MaxRecords : data \in [1..n -> ProductDicts]
    \/ data \in LargeLists

\* pd.DataFrame(product_data): one row per dict, one column per key that
\* some dict has, NaN where a dict lacks the key.  The columns that
\* _prepare_data adds later are rows' fields from the start, NaN ("NaN" for
\* a text column) until the column exists.
DataFrame(data) ==
    [columns |->
        IF Len(data) = 0 THEN {}
        ELSE {"category", "thc_percent"}
             \cup (IF \E j \in 1..Len(data) : data[j].has_brand THEN {"brand"} ELSE {})
             \cup (IF \E j \in 1..Len(data) : data[j].has_price THEN {"price"} ELSE {}),
     rows |->
        [j \in 1..Len(data) |->
            [category |-> data[j].category,
             brand |-> IF data[j].has_brand THEN data[j].brand ELSE NaN,
             price |-> IF data[j].has_price THEN data[j].price ELSE NaN,
             thc_percent |-> IF data[j].thc_percent # None
                               THEN data[j].thc_percent ELSE NaN,
             price_numeric |-> NaN,
             thc_numeric |-> NaN,
             pricing_tier |-> "NaN"]]]

Rows(d) == 1..Len(d.rows)

\* The values of a column, missing ones left out (dropna).
Values(d, col, missing) == { d.rows[j][col] : j \in Rows(d) } \ {missing}

\* Series.value_counts(): value -> number of rows holding it
ValueCounts(d, col, missing) ==
    [v \in Values(d, col, missing) |-> Cardinality({j \in Rows(d) : d.rows[j][col] = v})]

\* self.df['price_numeric'] = pd.to_numeric(self.df['price'], errors='coerce')
WithPriceNumeric(d) ==
    IF "price" \notin d.columns THEN d
    ELSE [columns |-> d.columns \cup {"price_numeric"},
          rows |-> [j \in Rows(d) |->
                      [d.rows[j] EXCEPT !.price_numeric = d.rows[j].price]]]

\* self.df['thc_numeric'] = self.df['thc_percent'].str.extract(...).astype(float)
WithThcNumeric(d) ==
    IF "thc_percent" \notin d.columns THEN d
    ELSE [columns |-> d.columns \cup {"thc_numeric"},
          rows |-> [j \in Rows(d) |->
                      [d.rows[j] EXCEPT !.thc_numeric = d.rows[j].thc_percent]]]

\* The rows whose price is known.
Known(d) == {j \in Rows(d) : d.rows[j].price_numeric # NaN}

\* The known prices in ascending order, position pos counted from 0.
SortedAt(d, pos) ==
    CHOOSE v \in {d.rows[j].price_numeric : j \in Known(d)} :
        /\ Cardinality({j \in Known(d) : d.rows[j].price_numeric < v}) <= pos
        /\ pos < Cardinality({j \in Known(d) : d.rows[j].price_numeric <= v})

\* Series.quantile(num/4) with linear interpolation over the known prices,
\* times 4 to stay in the integers: with h = (m-1)*num/4, the value at
\* floor(h) plus the fraction of h times the step to the next value.
Quantile4(d, num) ==
    LET m == Cardinality(Known(d))
        h4 == (m - 1) * num
        lo == h4 \div 4
        r == h4 % 4
    IN  IF m = 0 THEN NaN
        ELSE (4 - r) * SortedAt(d, lo) + r * SortedAt(d, Min(lo + 1, m - 1))

\* categorize_price(price); q1x4 and q3x4 are 4 times the quartiles (a
\* comparison with a NaN is false)
\* (CategorizePrice_NoNaNBranch: the function without its pd.isna branch)
CategorizePrice_NoNaNBranch(price, q1x4, q3x4) ==
    IF price # NaN /\ q1x4 # NaN /\ 4 * price <= q1x4 THEN "Value"
    ELSE IF price # NaN /\ q3x4 # NaN /\ 4 * price <= q3x4 THEN "Mid-Tier"
    ELSE "Premium"
CategorizePrice(price, q1x4, q3x4) ==
    IF price = NaN THEN "Unclassified"
    ELSE IF q1x4 # NaN /\ 4 * price <= q1x4 THEN "Value"
    ELSE IF q3x4 # NaN /\ 4 * price <= q3x4 THEN "Mid-Tier"
    ELSE "Premium"

\* _categorize_pricing_tiers
CategorizePricingTiers(d) ==
    IF "price_numeric" \notin d.columns THEN d
    ELSE LET q1x4 == Quantile4(d, 1)
             q3x4 == Quantile4(d, 3)
         IN  [columns |-> d.columns \cup {"pricing_tier"},
              rows |-> [j \in Rows(d) |->
                          [d.rows[j] EXCEPT !.pricing_tier =
                               CategorizePrice(d.rows[j].price_numeric, q1x4, q3x4)]]]

\* _prepare_data, up to its last line (the log line that reads
\* df['category'])
PrepareData(d) ==
    IF Len(d.rows) = 0 \/ d.columns = {} THEN d         \* if self.df.empty: return
    ELSE CategorizePricingTiers(WithThcNumeric(WithPriceNumeric(d)))

\* A dict with no key, and a dict with one more key set.
EmptyDict == <<>>
WithKey(dict, key, value) ==
    [x \in DOMAIN dict \cup {key} |-> IF x = key THEN value ELSE dict[x]]

\* dict.get(key, default)
Get(dict, key, default) == IF key \in DOMAIN dict THEN dict[key] ELSE default

\* (count / total * 100).round(1), in tenths of a percent, computed exactly
\* and rounded half to even.
RoundedPercent(count, total) ==
    LET x == 1000 * count
        q == x \div total
        r2 == 2 * (x % total)
    IN  IF r2 < total THEN q
        ELSE IF r2 > total THEN q + 1
        ELSE IF q % 2 = 0 THEN q ELSE q + 1

\* _calculate_strength_score, its four additions:
\* product variety
VarietyPoints(total_products) ==
    IF total_products > 300 THEN 30 ELSE IF total_products > 150 THEN 20 ELSE 10

\* category coverage
CoveragePoints(category_count) == Min(category_count * 4, 25)

\* pricing balance: value_counts(normalize=True) lists the tiers that hold
\* a row ('Unclassified' among them), each with its share of the rows;
\* share > 0.15 is count * 100 > 15 * rows.
BalancePoints(d) ==
    IF "pricing_tier" \notin d.columns THEN 0
    ELSE LET tier_balance == ValueCounts(d, "pricing_tier", "NaN")
         IN  IF \A t \in DOMAIN tier_balance :
                     100 * tier_balance[t] > 15 * Len(d.rows)
               THEN 25 ELSE 15

\* brand diversity (nunique leaves NaN out)
BrandPoints(d) ==
    IF "brand" \notin d.columns THEN 0
    ELSE Min(Cardinality(Values(d, "brand", NaN)) * 2, 20)

\* _calculate_strength_score: <<score>>, or <<>> when self.df['category']
\* raises KeyError.
CalculateStrengthScore(d) ==
    IF "category" \notin d.columns THEN <<>>
    ELSE << Min(VarietyPoints(Len(d.rows))
                  + CoveragePoints(Cardinality(Values(d, "category", "NaN")))
                  + BalancePoints(d)
                  + BrandPoints(d),
                100) >>

\* category_counts.index[0]: the category with the most rows; value_counts
\* leaves the order of equal counts open, so any of them may come first.
LargestCategories(counts) ==
    {c \in DOMAIN counts : \A c2 \in DOMAIN counts : counts[c2] <= counts[c]}

\* generate_menu_composition_analysis with `largest` first in
\* category_counts: <<analysis>>, or <<>> when self.df['category'] raises
\* KeyError.  (top_brands, strain_distribution and the diversity score are
\* left out: no column of the model feeds them or they are a plain ratio.)
MenuComposition(d, largest) ==
    IF "category" \notin d.columns THEN <<>>
    ELSE LET category_counts == ValueCounts(d, "category", "NaN")
         IN  << [total_products |-> Len(d.rows),
                 category_distribution |->
                    [counts |-> category_counts,
                     percentages |->
                        [c \in DOMAIN category_counts |->
                            RoundedPercent(category_counts[c], Len(d.rows))]],
                 largest_category |-> largest] >>

\* _determine_pricing_strategy (percentages in tenths)
DeterminePricingStrategy(tier_percentages) ==
    IF Get(tier_percentages, "Premium", 0) > 400 THEN "Premium Positioning"
    ELSE IF Get(tier_percentages, "Value", 0) > 400 THEN "Value Positioning"
    ELSE "Balanced Positioning"

\* Series.min() / Series.max() of the known prices of some rows
SeriesMin(d, rows) ==
    IF rows \cap Known(d) = {} THEN NaN
    ELSE CHOOSE v \in {d.rows[j].price_numeric : j \in rows \cap Known(d)} :
           \A j \in rows \cap Known(d) : v <= d.rows[j].price_numeric
SeriesMax(d, rows) ==
    IF rows \cap Known(d) = {} THEN NaN
    ELSE CHOOSE v \in {d.rows[j].price_numeric : j \in rows \cap Known(d)} :
           \A j \in rows \cap Known(d) : v >= d.rows[j].price_numeric

\* generate_pricing_analysis: the error dict (returned, not stored) or the
\* analysis.  (mean, median and std are left out: the model keeps integers.)
PricingAvailable(d) == "price_numeric" \in d.columns

PricingAnalysis(d) ==
    IF ~PricingAvailable(d) THEN [error |-> "Price data not available"]
    ELSE LET tier_distribution == ValueCounts(d, "pricing_tier", "NaN")
             tier_percentages ==
                [t \in DOMAIN tier_distribution |->
                    RoundedPercent(tier_distribution[t], Len(d.rows))]
         IN  [overall_statistics |->
                 [min_price |-> SeriesMin(d, Rows(d)), max_price |-> SeriesMax(d, Rows(d))],
              pricing_tiers |->
                 [distribution |-> tier_distribution, percentages |-> tier_percentages],
              category_pricing |->
                 [c \in Values(d, "category", "NaN") |->
                    LET cat_df == {j \in Rows(d) : d.rows[j].category = c}
                    IN  [min_price |-> SeriesMin(d, cat_df),
                         max_price |-> SeriesMax(d, cat_df),
                         product_count |-> Cardinality(cat_df)]],
              pricing_strategy |-> DeterminePricingStrategy(tier_percentages)]

\* generate_potency_analysis (the CBD part mirrors the THC part and is left
\* out): {} when no row has a THC value.
PotencyAnalysis(d) ==
    LET thc_data == IF "thc_numeric" \in d.columns
                      THEN {j \in Rows(d) : d.rows[j].thc_numeric # NaN} ELSE {}
    IN  IF thc_data = {} THEN EmptyDict
        ELSE [thc_analysis |->
                 [min_thc |-> CHOOSE v \in {d.rows[j].thc_numeric : j \in thc_data} :
                                 \A j \in thc_data : v <= d.rows[j].thc_numeric,
                  max_thc |-> CHOOSE v \in {d.rows[j].thc_numeric : j \in thc_data} :
                                 \A j \in thc_data : v >= d.rows[j].thc_numeric,
                  products_with_thc |-> Cardinality(thc_data)],
              thc_ranges |->
                 [low_thc_0_15 |->
                     Cardinality({j \in thc_data : d.rows[j].thc_numeric <= 15}),
                  medium_thc_15_25 |->
                     Cardinality({j \in thc_data : /\ d.rows[j].thc_numeric > 15
                                                   /\ d.rows[j].thc_numeric <= 25}),
                  high_thc_25_plus |->
                     Cardinality({j \in thc_data : d.rows[j].thc_numeric > 25})]]

\* category_benchmarks
CategoryBenchmarks ==
    [c \in {"flower", "edibles", "vaporizers", "pre-rolls", "concentrates", "tinctures"} |->
        CASE c = "flower" -> 35
          [] c = "edibles" -> 25
          [] c = "vaporizers" -> 20
          [] c = "pre-rolls" -> 15
          [] c = "concentrates" -> 10
          [] c = "tinctures" -> 5]

\* self.analysis_results.get("menu_composition", {}).get(
\*     "category_distribution", {}).get("percentages", {})
MenuPercentages(results) ==
    Get(Get(Get(results, "menu_composition", EmptyDict),
            "category_distribution", EmptyDict),
        "percentages", EmptyDict)

\* pricing.get("pricing_tiers", {}).get("percentages", {})
TierPercentages(results) ==
    Get(Get(Get(results, "pricing_analysis", EmptyDict),
            "pricing_tiers", EmptyDict),
        "percentages", EmptyDict)

\* if cond: recommendations.append(text)
AppendIf(cond, list, text) == IF cond THEN Append(list, text) ELSE list

\* _generate_strategic_recommendations (percentages in tenths; the texts
\* shortened to their subject)
StrategicRecommendations(results) ==
    LET category_dist == MenuPercentages(results)
        tier_dist == TierPercentages(results)
        r1 == AppendIf(Get(category_dist, "flower", 0) < 300, <<>>, "expand flower")
        r2 == AppendIf(Get(category_dist, "edibles", 0) < 200, r1, "grow edibles")
        r3 == AppendIf(Get(tier_dist, "Premium", 0) < 200, r2, "add premium")
    IN  AppendIf(Get(tier_dist, "Value", 0) < 150, r3, "add value tier")

\* generate_competitive_positioning: <<analysis>>, or <<>> when
\* self.df['category'] raises KeyError.
CompetitivePositioning(d, results) ==
    IF "category" \notin d.columns THEN <<>>
    ELSE LET total_products == Len(d.rows)
             category_count == Cardinality(Values(d, "category", "NaN"))
         IN  << [market_position |->
                    IF total_products > 300 THEN "Market Leader"
                    ELSE IF total_products > 150 THEN "Strong Competitor"
                    ELSE "Niche Player",
                 competitive_advantages |->
                    AppendIf(category_count >= 5,
                             AppendIf(total_products > 200, <<>>,
                                      "Extensive product selection"),
                             "Comprehensive category coverage"),
                 category_performance |->
                    [c \in DOMAIN CategoryBenchmarks |->
                        [actual_percentage |-> Get(MenuPercentages(results), c, 0),
                         benchmark_percentage |-> CategoryBenchmarks[c],
                         performance_vs_benchmark |->
                            IF Get(MenuPercentages(results), c, 0)
                                 > 10 * CategoryBenchmarks[c]
                              THEN "Above" ELSE "Below"]],
                 overall_strength_score |-> CalculateStrengthScore(d)[1],
                 strategic_recommendations |-> StrategicRecommendations(results)] >>

\* self.analysis_results after the four modules of generate_full_analysis
\* ran without raising (the pricing module stores nothing when it returns
\* its error dict).
AfterMenu(d, results, largest) ==
    WithKey(results, "menu_composition", MenuComposition(d, largest)[1])
AfterPricing(d, results) ==
    IF PricingAvailable(d) THEN WithKey(results, "pricing_analysis", PricingAnalysis(d))
    ELSE results
AfterPotency(d, results) == WithKey(results, "potency_analysis", PotencyAnalysis(d))
AfterPositioning(d, results) ==
    WithKey(results, "competitive_positioning", CompetitivePositioning(d, results)[1])

FullAnalysisResults(d, results, largest) ==
    AfterPositioning(d, AfterPotency(d, AfterPricing(d, AfterMenu(d, results, largest))))

\* l[:n]
Take(list, n) == SubSeq(list, 1, Min(n, Len(list)))

\* generate_full_analysis: <<complete_analysis>>, or <<>> when its first
\* module raises KeyError.  (analysis_metadata holds the time of day and
\* the version text; only data_points is kept.)
FullAnalysis(d, results, largest) ==
    IF "category" \notin d.columns THEN <<>>
    ELSE LET after == FullAnalysisResults(d, results, largest)
             positioning == Get(after, "competitive_positioning", EmptyDict)
         IN  << [executive_summary |->
                    [total_products |-> Len(d.rows),
                     categories_covered |-> Cardinality(Values(d, "category", "NaN")),
                     market_position |-> Get(positioning, "market_position", None),
                     strength_score |-> Get(positioning, "overall_strength_score", None),
                     key_advantages |-> Get(positioning, "competitive_advantages", <<>>),
                     top_recommendations |->
                        Take(Get(positioning, "strategic_recommendations", <<>>), 3)],
                 menu_composition |-> Get(after, "menu_composition", EmptyDict),
                 pricing_analysis |-> Get(after, "pricing_analysis", EmptyDict),
                 potency_analysis |-> Get(after, "potency_analysis", EmptyDict),
                 competitive_positioning |-> positioning,
                 data_points |-> Len(d.rows)] >>

----------------------------------------------------------------------------
\* A CompetitiveAnalyzer: built from a record list, then one operation on it

AnalysisInit ==
    /\ RunIdle
    /\ ScrollParked
    /\ ExtractorParked
    /\ IsProductList(product_data)
    /\ df = [columns |-> {}, rows |-> <<>>]
    /\ analysis_results = EmptyDict
    /\ apc = "new"
    /\ op = "none"
    /\ aresult = <<>>
    /\ aerror = "none"

\* The operation `name` returned res / raised exc.
Returns(name, res) ==
    /\ apc' = "done"
    /\ op' = name
    /\ aresult' = <<res>>
    /\ aerror' = "none"

Raises(name, exc) ==
    /\ apc' = "done"
    /\ op' = name
    /\ aresult' = <<>>
    /\ aerror' = exc

\* CompetitiveAnalyzer(product_data): the DataFrame, analysis_results = {}
\* and _prepare_data, whose last line reads df['category'] when the frame
\* is not empty.
Construct ==
    /\ apc = "new"
    /\ df' = PrepareData(DataFrame(product_data))
    /\ analysis_results' = EmptyDict
    /\ IF Len(df'.rows) > 0 /\ df'.columns # {} /\ "category" \notin df'.columns
         THEN Raises("__init__", "KeyError")
         ELSE /\ apc' = "ready"
              /\ UNCHANGED <<op, aresult, aerror>>
    /\ UNCHANGED <<product_data, scrollVars, runVars, exVars>>

GenerateMenuCompositionAnalysis ==
    /\ apc = "ready"
    /\ IF "category" \notin df.columns
         THEN /\ Raises("generate_menu_composition_analysis", "KeyError")
              /\ UNCHANGED analysis_results
         ELSE \E largest \in LargestCategories(ValueCounts(df, "category", "NaN")) :
                /\ analysis_results' = AfterMenu(df, analysis_results, largest)
                /\ Returns("generate_menu_composition_analysis",
                           MenuComposition(df, largest)[1])
    /\ UNCHANGED <<product_data, df, scrollVars, runVars, exVars>>

GeneratePricingAnalysis ==
    /\ apc = "ready"
    /\ analysis_results' = AfterPricing(df, analysis_results)
    /\ Returns("generate_pricing_analysis", PricingAnalysis(df))
    /\ UNCHANGED <<product_data, df, scrollVars, runVars, exVars>>

GeneratePotencyAnalysis ==
    /\ apc = "ready"
    /\ analysis_results' = AfterPotency(df, analysis_results)
    /\ Returns("generate_potency_analysis", PotencyAnalysis(df))
    /\ UNCHANGED <<product_data, df, scrollVars, runVars, exVars>>

GenerateCompetitivePositioning ==
    /\ apc = "ready"
    /\ IF CompetitivePositioning(df, analysis_results) = <<>>
         THEN /\ Raises("generate_competitive_positioning", "KeyError")
              /\ UNCHANGED analysis_results
         ELSE /\ analysis_results' = AfterPositioning(df, analysis_results)
              /\ Returns("generate_competitive_positioning",
                         CompetitivePositioning(df, analysis_results)[1])
    /\ UNCHANGED <<product_data, df, scrollVars, runVars, exVars>>

\* A direct call of _calculate_strength_score.
StrengthScore ==
    /\ apc = "ready"
    /\ IF CalculateStrengthScore(df) = <<>>
         THEN Raises("_calculate_strength_score", "KeyError")
         ELSE Returns("_calculate_strength_score", CalculateStrengthScore(df)[1])
    /\ UNCHANGED <<product_data, df, analysis_results, scrollVars, runVars, exVars>>

GenerateFullAnalysis ==
    /\ apc = "ready"
    /\ IF "category" \notin df.columns
         THEN /\ Raises("generate_full_analysis", "KeyError")
              /\ UNCHANGED analysis_results
         ELSE \E largest \in LargestCategories(ValueCounts(df, "category", "NaN")) :
                /\ analysis_results' = FullAnalysisResults(df, analysis_results, largest)
                /\ Returns("generate_full_analysis",
                           FullAnalysis(df, analysis_results, largest)[1])
    /\ UNCHANGED <<product_data, df, scrollVars, runVars, exVars>>

AnalysisNext ==
    \/ Construct
    \/ GenerateMenuCompositionAnalysis
    \/ GeneratePricingAnalysis
    \/ GeneratePotencyAnalysis
    \/ GenerateCompetitivePositioning
    \/ StrengthScore
    \/ GenerateFullAnalysis

AnalysisSpec == AnalysisInit /\ [][AnalysisNext]_vars

\* The caller has the result of an operation and is about to call the next
\* one on the same analyzer: self.df and self.analysis_results stay as the
\* operations so far left them.
CallsNextOperation ==
    /\ apc = "done"
    /\ op # "__init__"
    /\ apc' = "ready"
    /\ op' = "none"
    /\ aresult' = <<>>
    /\ aerror' = "none"
    /\ UNCHANGED <<product_data, df, analysis_results, scrollVars, runVars, exVars>>

AnalysisSessionNext == AnalysisNext \/ CallsNextOperation

\* One analyzer and any sequence of operations on it.
AnalysisSessionSpec == AnalysisInit /\ [][AnalysisSessionNext]_vars

----------------------------------------------------------------------------
\* One call of _extract_product_data, on any entry handle

ExtractorInit ==
    /\ RunIdle
    /\ ScrollParked
    /\ AnalysisParked
    /\ IsElement(product_element)
    /\ xpc = "ready"
    /\ xresult = <<>>

ExtractProductDataCall ==
    /\ xpc = "ready"
    /\ xresult' = ParseProduct(product_element)
    /\ xpc' = "done"
    /\ UNCHANGED <<product_element, scrollVars, runVars, anVars>>

ExtractorNext == ExtractProductDataCall

ExtractorSpec == ExtractorInit /\ [][ExtractorNext]_vars

----------------------------------------------------------------------------
\* Claims about the CompetitiveAnalyzer (checked under AnalysisSpec)

Prepared == apc = "ready"
Scored == apc = "done" /\ op = "_calculate_strength_score"

\* Rows of the frame tagged with a tier (none while the column is missing).
InTier(tier) ==
    {j \in Rows(df) : "pricing_tier" \in df.columns /\ df.rows[j].pricing_tier = tier}

WithPrice == {j \in 1..Len(product_data) : product_data[j].has_price}

C17_StrengthScoreInRange ==
    Scored =>
        /\ aerror = "none"
        /\ Len(aresult) = 1
        /\ aresult[1] >= 0 /\ aresult[1] <= 100

\* C18: on an analyzer built from the empty list, each analysis operation
\* (menu composition, pricing, potency, competitive positioning, full
\* analysis) returns a result and none ends in an error.
C18_EmptySetNeverFails ==
    apc = "done" /\ Len(product_data) = 0 /\ op # "_calculate_strength_score" =>
        /\ aerror = "none"
        /\ aresult # <<>>

\* The strength score as the specification states it, on the record list.
Distinct(field, present) ==
    Cardinality({product_data[j][field] : j \in {n \in 1..Len(product_data) :
                                                   product_data[n][present]}})

StatedVariety ==
    IF Len(product_data) > 300 THEN 30 ELSE IF Len(product_data) > 150 THEN 20 ELSE 10

\* 25 if the share of every tier (Value, Mid-Tier, Premium) in the record
\* set is above 15%, else 15
StatedBalance ==
    IF \A tier \in {"Value", "Mid-Tier", "Premium"} :
          100 * Cardinality(InTier(tier)) > 15 * Len(product_data)
      THEN 25 ELSE 15

StatedScore ==
    Min(100, StatedVariety
               + Min(4 * Cardinality({product_data[j].category : j \in 1..Len(product_data)}), 25)
               + StatedBalance
               + Min(2 * Distinct("brand", "has_brand"), 20))

\* C19: the strength score is min(100, P + C + T + B) with P 30/20/10 by
\* the number of products, C = min(4 * distinct categories, 25), T the
\* pricing-balance component, B = min(2 * distinct brands, 20); the list
\* of 400 products in 6 categories, 25 brands and balanced tiers scores 99.
C19_StrengthScoreFormula ==
    Scored =>
        /\ aresult = <<StatedScore>>
        /\ product_data = ExampleList => aresult = <<99>>

\* C20: the pricing-balance component of the score is 25 when every
\* pricing tier holds more than 15% of the record set and 15 otherwise, in
\* particular when a tier holds no record or no record has a price.
C20_BalanceComponent ==
    Scored /\ aerror = "none" => BalancePoints(df) = StatedBalance

----------------------------------------------------------------------------
\* Further claims about the Scroll Loader (checked under ScrollSpec)

\* The loop leaves through `break`: the while condition held and the next
\* position is the final count.
StabilityStop == spc = "loop" /\ LoopGuard(scroll_attempts) /\ spc' = "final"

\* The loop goes round once more.
ScrollsAgain == spc = "loop" /\ spc' = "loop"

\* C23: below the ceiling the loop stops exactly at the first iteration at
\* which the count equals the count of the previous iteration and at least 4
\* scrolls have been made; an unchanged count before that never stops it, so
\* a loader that saw an initial entry returns after at least 4 scrolls.
C23_StabilityRule ==
    /\ [][StabilityStop => visible = last_product_count /\ scroll_attempts >= 4]_vars
    /\ [][ScrollsAgain => ~(visible = last_product_count /\ scroll_attempts >= 4)]_vars
    /\ [](spc \in {"final", "done"} /\ visible >= 1 => scroll_attempts >= 4)

\* A page that shows entries at the wait and never appends: the count is
\* unchanged from the second iteration on, and the loop still scrolls 4 times.
C23_Witness ==
    ScrollReturned /\ src.initial >= 1 /\ appends = 0 /\ scroll_attempts = 4
      /\ final_products = src.initial

----------------------------------------------------------------------------
\* Further claims about extract_dispensary (checked under Spec)

\* The loader came back from a category page that showed no entry.
EmptyLoad == pc = "category" /\ pc' = "extract" /\ product_elements' = 0

\* C24: a page that shows no entry within the initial wait makes the loader
\* return the empty list with no scroll action and no exception; the
\* orchestrator then appends nothing, counts the category as processed and
\* goes on to the next category (or to the end of the list).
C24_EmptyCategoryIsProcessed ==
    /\ \A s \in Sources :
          s.initial = 0 => ScrollAndLoad(s) = 0 /\ ScrollActions(s) = 0
    /\ [][EmptyLoad => fault' = "none" /\ i' = 0 /\ category_products' = <<>>]_vars
    /\ [][FilterStep /\ product_elements = 0 =>
            /\ fault' = "none"
            /\ all_products' = all_products
            /\ stats'.categories_processed = stats.categories_processed + 1
            /\ run_done' = run_done + 1
            /\ k' = k + 1
            /\ pc' = IF k < Len(categories) THEN "category" ELSE "finally"]_vars

\* The first of two categories was empty and the second is about to be loaded.
C24_Witness ==
    /\ pc = "category" /\ k = 2 /\ Len(categories) = 2
    /\ product_elements = 0 /\ run_entries = 0 /\ all_products = <<>>
    /\ run_done = 1 /\ fault = "none"

\* Position of a record's category in the category list of the call.
ListedAt(category) == {n \in 1..Len(categories) : categories[n] = category}

GroupedInListOrder(products) ==
    \A m, n \in 1..Len(products) :
        m < n => \E a \in ListedAt(products[m].category),
                    b \in ListedAt(products[n].category) : a <= b

\* The steps of one category come in the order load, extract every entry,
\* filter and append, advance; categories are taken in list order.
StepsInOrder ==
    /\ pc = "category" /\ pc' = "extract" => i' = 0 /\ category_products' = <<>> /\ k' = k
    /\ pc = "extract" /\ pc' = "extract" => i' = i + 1 /\ k' = k /\ all_products' = all_products
    /\ FilterStep /\ fault' = "none" =>
          /\ k' = k + 1
          /\ \E kept \in SUBSET (1..Len(category_products)) :
                Len(all_products') = Len(all_products) + Cardinality(kept)
          /\ \A n \in 1..Len(all_products) : all_products'[n] = all_products[n]
          /\ \A n \in Len(all_products) + 1..Len(all_products') :
                all_products'[n].category = categories[k]

\* C25: execution is strictly sequential: never more than one browser
\* session is open, the categories are processed one at a time in list
\* order with the steps load, extract, tag, filter, append, advance; at
\* every point of a run categories_processed is the number of categories
\* whose records have been appended, and the returned list is grouped by
\* category in list order.
C25_StrictlySequential ==
    /\ [](open_sessions <= 1)
    /\ [][StepsInOrder]_vars
    /\ [](pc \in {"category", "extract"} => stats.categories_processed = k - 1)
    /\ [](Completed => GroupedInListOrder(returned))

\* Entries of the current run handed to _extract_product_data so far: all
\* entries of the pages loaded, less those of the current page not yet
\* reached by the for loop.
RunHanded == run_entries - (product_elements - i)

\* The first run of a fresh extractor, from its start to its outcome.
FirstRun == calls = 1 /\ (pc # "idle" \/ outcome # "none")

\* C27: within one run on a fresh extractor, after each entry and at the
\* end, successful_extractions + failed_extractions is the number of entries
\* handed to the Record Extractor so far, total_products never exceeds
\* successful_extractions, and the two are equal when the run completes with
\* no filter provided.
C27_CounterConservation ==
    FirstRun =>
        /\ stats.successful_extractions + stats.failed_extractions = RunHanded
        /\ stats.total_products <= stats.successful_extractions
        /\ Completed /\ NoFilters =>
              stats.total_products = stats.successful_extractions

\* A completed unfiltered run in which one entry failed and one succeeded.
C27_Witness ==
    /\ FirstRun /\ Completed /\ NoFilters
    /\ stats.failed_extractions = 1 /\ stats.successful_extractions = 1
    /\ stats.total_products = 1 /\ RunHanded = 2

\* get_extraction_stats stores a duration: a step that changes the key.
ReportsDuration == stats'.duration_seconds # stats.duration_seconds

\* C28: after any sequence of calls on one extractor, each completing or
\* failing at any step, session setup included, a duration_seconds that
\* get_extraction_stats reports is not negative and is the duration of the
\* most recent run: end_time is not earlier than start_time.
C28_DurationOfLastRun ==
    [][ReportsDuration =>
         /\ stats'.duration_seconds[1] >= 0
         /\ stats.end_time >= stats.start_time]_vars

\* C29: when max_price is provided the filter drops a record with no price
\* (an absent price exceeds every bound); when it is not provided a record
\* with no price is kept (unless the THC bound drops it).
C29_PricelessDroppedIffBound ==
    [][FilterStep /\ fault' = "none" =>
         \A n \in 1..Len(category_products) :
            LET r == category_products[n] IN
            ~r.has_price =>
               /\ max_price # None => ~InSeq(r, category_products')
               /\ max_price = None /\ (min_thc = None \/ r.thc_numeric >= min_thc)
                     => InSeq(r, category_products')]_vars

----------------------------------------------------------------------------
\* Claims about sequences of analyses (checked under AnalysisSessionSpec)

ReturnedFrom(name) == apc = "done" /\ op = name /\ aerror = "none"

Largests == LargestCategories(ValueCounts(df, "category", "NaN"))

\* C22: for a fixed record set the result of each analysis operation is the
\* one a fresh analyzer gives, whichever operations were invoked before it
\* and in whatever order (the order of equal category counts apart).
C22_ResultIndependentOfHistory ==
    /\ ReturnedFrom("generate_menu_composition_analysis") =>
          \E l \in Largests : aresult[1] = MenuComposition(df, l)[1]
    /\ ReturnedFrom("generate_pricing_analysis") => aresult[1] = PricingAnalysis(df)
    /\ ReturnedFrom("generate_potency_analysis") => aresult[1] = PotencyAnalysis(df)
    /\ ReturnedFrom("_calculate_strength_score") =>
          aresult[1] = CalculateStrengthScore(df)[1]
    /\ ReturnedFrom("generate_full_analysis") =>
          \E l \in Largests : aresult[1] = FullAnalysis(df, EmptyDict, l)[1]
    /\ ReturnedFrom("generate_competitive_positioning") =>
          aresult[1] = CompetitivePositioning(df, EmptyDict)[1]

----------------------------------------------------------------------------
\* Claims about the Record Extractor (checked under ExtractorSpec)

Extracted == xpc = "done" /\ product_element.readable

\* A token of `first`, then white space only, then a token of `second`.
OccursSpaced(text, first, second) ==
    \E p, q \in 1..Len(text) :
        /\ p < q
        /\ text[p] \in first
        /\ text[q] \in second
        /\ \A m \in p + 1..q - 1 : text[m] \in {"", "\n"}

Occurs(text, tokens) == \E p \in 1..Len(text) : text[p] \in tokens

StrainOccurs(text) == Occurs(text, {"Hybrid", "indica"})
ThcOccurs(text) == OccursSpaced(text, {"THC:"}, {"2%", "1%"})
CbdOccurs(text) == OccursSpaced(text, {"cbd:"}, {"2%", "1%"})
PriceOccurs(text) == Occurs(text, {"$1"})
SizeOccurs(text) == OccursSpaced(text, {"3", "$1"}, {"g"})
SoldOutOccurs(text) == Occurs(text, {"Sold Out"})

\* C21: the fields of a record are independent: each of strain type, THC,
\* CBD, price, size and stock status is extracted iff its own pattern occurs
\* in the text, whatever the other fields are; a text with a price and no
\* THC gives a record with the price and an absent (not zero) THC.
C21_FieldsIndependent ==
    Extracted =>
        /\ xresult # <<>>
        /\ LET r == xresult[1]
               text == product_element.text
           IN /\ r.strain_type # <<>> <=> StrainOccurs(text)
              /\ r.thc_numeric # None <=> ThcOccurs(text)
              /\ r.thc_percent # <<>> <=> ThcOccurs(text)
              /\ r.cbd_numeric # None <=> CbdOccurs(text)
              /\ r.cbd_percent # <<>> <=> CbdOccurs(text)
              /\ r.has_price <=> PriceOccurs(text)
              /\ r.size_weight # <<>> <=> SizeOccurs(text)
              /\ r.stock_status = "out_of_stock" <=> SoldOutOccurs(text)
              /\ r.stock_status \in {"out_of_stock", "in_stock"}
              /\ PriceOccurs(text) /\ ~ThcOccurs(text) =>
                    r.has_price /\ r.price = 1 /\ r.thc_numeric = None
                      /\ r.thc_numeric # 0

\* A name, a price and nothing else.
C21_Witness ==
    /\ Extracted
    /\ product_element.text = <<"Blue", "\n", "$1">>
    /\ xresult # <<>>
    /\ xresult[1].has_price /\ xresult[1].price = 1
    /\ xresult[1].thc_numeric = None /\ xresult[1].strain_type = <<>>

\* The lines of the text block that are not empty or blank, stripped.
NonEmptyLines(text) == SelectSeq([n \in 1..Len(Split(text)) |-> Strip(Split(text)[n])],
                                 LAMBDA line : line # <<>>)

\* C26: the name of a record is the first non-empty line of the text block,
\* also when the first line is empty or blank.
C26_NameIsFirstNonEmptyLine ==
    Extracted /\ NonEmptyLines(product_element.text) # <<>> =>
        /\ xresult # <<>>
        /\ xresult[1].product_name = NonEmptyLines(product_element.text)[1]

====
